---- MODULE Spec2Model ----
(***************************************************************************)
(* State-machine model of the fp.push `pushService` registration          *)
(* lifecycle (AngularJS wrapper around phonegap-plugin-push).             *)
(*                                                                         *)
(* Two revisions of the service are modelled side by side, selected by    *)
(* the `variant` variable:                                                 *)
(*   "part_000"  src/unnamed/part_000  isRegistered = handle AND token     *)
(*   "part_002"  src/unnamed/part_002  isRegistered = handle only          *)
(*                                                                         *)
(* Every service call is a promise chain.  A chain is cut into steps at    *)
(* the points where it waits for something outside the service: the host   *)
(* readiness signal and the completion of a native call.  Each step is one *)
(* action; everything the chain does synchronously (or in promise ticks of *)
(* the same digest) between two such points belongs to the same action.    *)
(***************************************************************************)
EXTENDS Integers, Sequences, FiniteSets, TLC

(* ------------------------------ bounds --------------------------------- *)

\* Number of service calls made in one run.
MaxCalls == 2

Calls == 1..MaxCalls

\* Device tokens the native layer may hand out.
Tokens == {"t1", "t2"}

\* Errors the native layer may fail with.
NativeErrors == {"e1", "e2"}

\* Platform identifiers the host may report.
Platforms == {"ios", "android", "browser"}

Variants == {"part_000", "part_002"}

\* part_001 has the lifecycle of part_002 (isRegistered, register,
\* unregister) and the platform tests of part_000 (checkPlatform).
CheckPlatformVariants == {"part_000", "part_001"}

\* The first revision of the service, src/fp.push/push.service.js.
ORIGINAL == "push.service.js"

\* Revisions whose isRegistered() also tests the cached token and whose
\* unregister returns at once when it is false.
TokenCheckVariants == {"part_000", ORIGINAL}

\* Handlers the application gives to onNotification / onError.
MaxHandlers == 2

Handlers == 1..MaxHandlers

\* Events emitted on the root scope in one run.
MaxEvents == 2

\* Largest number given to setBadgeNumber / incrementBadgeNumber, and largest
\* badge an external writer sets.
MaxNumber == 2

\* Calls of operations other than register / unregister in one run of the
\* specification of all operations.
MaxOthers == 1

\* Keys a caller sets in the options of one register().
MaxOptionKeys == 2

(* --------------------------- program constants -------------------------- *)

\* PUSH_ERRORS.NOT_INITIALIZED
NOT_INITIALIZED == "init must be called before any other operation"

\* `undefined` as found in the cache / returned by a promise.
None == "undefined"

\* `plugin = null`
NoPlugin == 0

\* no error caught / no rejection reason
NoError == "none"

\* Fallback of the badge operations on an unsupported platform.
UNSUPPORTED == -1

\* PUSH_EVENTS
ON_NOTIFICATION == "$cordovaPushV5:notificationReceived"

ON_ERROR == "$cordovaPushV5:errorOccurred"

EventNames == {ON_NOTIFICATION, ON_ERROR}

\* Payloads $cordovaPushV5 emits with an event.
Payloads == {"p1", "p2"}

\* What calling a property that is `undefined` throws.
TYPE_ERROR == "TypeError"

\* PUSH_ERRORS.MISSING_GLOBALS
MISSING_GLOBALS == "missing the phonegap-plugin-push, ionic or lodash"

(* ------------------------------ settings -------------------------------- *)

\* A settings object is a function from the top-level keys it has to what
\* they hold: a plain value, or an object given as a function from its keys
\* to their values.

\* Top-level keys of a settings object.
Sections == {"android", "ios"}

\* Keys of the object held under a top-level key.
Keys == {"senderID", "clearBadge", "alert", "badge", "sound"}

\* `{}`
EmptyObject == << >>

ValueSection(v) == [kind |-> "value", val |-> v, fields |-> EmptyObject]

ObjectSection(f) == [kind |-> "object", val |-> "object", fields |-> f]

\* PUSH_DEFAULT_SETTINGS
DEFAULT_SETTINGS ==
  [ android |-> ObjectSection([senderID |-> "null", clearBadge |-> "true"]),
    ios |-> ObjectSection([alert |-> "true", badge |-> "true",
                           sound |-> "true", clearBadge |-> "true"]) ]

\* Number of keys the objects of a settings object hold.
keysIn(o) ==
  Cardinality({p \in Sections \X Keys :
                 p[1] \in DOMAIN o /\ p[2] \in DOMAIN o[p[1]].fields})

\* Values a caller gives to a key of its options.
OptionLeaves == {"undefined", "false"}

\* The objects register() is called with: every top-level key is left out,
\* given a plain value, or given an object, the objects holding at most
\* MaxOptionKeys keys; `undefined` (no argument) merges as `{}`.
OptionObjects ==
  UNION {[K -> OptionLeaves] :
           K \in {K \in SUBSET Keys : Cardinality(K) <= MaxOptionKeys}}

OptionSections ==
  {ValueSection(v) : v \in OptionLeaves} \cup {ObjectSection(f) : f \in OptionObjects}

Options ==
  {o \in UNION {[S -> OptionSections] : S \in SUBSET Sections} :
     keysIn(o) <= MaxOptionKeys}

\* A variant of assignMergeValue in which the source always wins.
assignMergeValueAlways(d, k, v) == v

\* lodash assigning value v of a source to key k of the destination d:
\* `undefined` is assigned only where the destination has no such key.
assignMergeValue(d, k, v) ==
  IF v = "undefined" /\ k \in DOMAIN d THEN d[k] ELSE v

\* lodash merging the keys of object s into those of object d.
mergeFields(d, s) ==
  [k \in DOMAIN d \cup DOMAIN s |->
     IF k \notin DOMAIN s THEN d[k] ELSE assignMergeValue(d, k, s[k])]

\* lodash merging what a source holds under top-level key x: an object is
\* merged key by key, into a fresh object when the destination holds none;
\* anything else is assigned.
mergeSection(d, x, s) ==
  IF s.kind = "object"
    THEN ObjectSection(mergeFields(
           IF x \in DOMAIN d /\ d[x].kind = "object" THEN d[x].fields ELSE EmptyObject,
           s.fields))
  ELSE IF s.val = "undefined" /\ x \in DOMAIN d THEN d[x]
  ELSE s

\* `_.merge(dst, src)`: the destination after the merge.
merge(dst, src) ==
  [x \in DOMAIN dst \cup DOMAIN src |->
     IF x \notin DOMAIN src THEN dst[x] ELSE mergeSection(dst, x, src[x])]

\* First argument of the merge of register(): a fresh `{}`, not the shared
\* defaults.
mergeTarget == "fresh"

VARIABLES
  variant,    \* which revision of the service is running
  platform,   \* platform identifier reported by the host
  ready,      \* has the host readiness signal fired
  plugin,     \* `var plugin`: NoPlugin or the live instance
  token,      \* module cache entry DEVICE_TOKEN_CACHE_KEY
  listeners,  \* instances that carry a transient 'error' listener
  calls,      \* one record per service call
  used,       \* number of calls made so far
  badge,      \* application icon badge kept by the OS
  handlers,   \* state of each handler given to onNotification / onError
  inbox,      \* what each handler has been called with
  emitted,    \* number of events emitted on the root scope
  cordova,    \* does the host report itself as Cordova
  globals,    \* is $window.PushNotification present
  service,    \* what the constructor left: no instance yet, one with its
              \* operations, or one without any
  logged,     \* what the constructor gave to $log.error
  defaults,   \* the shared default settings object
  options,    \* argument of the last register(options)
  settings    \* argument of the last native initialize

vars == <<variant, platform, ready, plugin, token, listeners, calls, used,
          badge, handlers, inbox, emitted, cordova, globals, service, logged,
          defaults, options, settings>>

\* What the constructor and the settings merge of register() write.
setup == <<cordova, globals, service, logged, defaults, options, settings>>

\* The event relay.
relay == <<handlers, inbox, emitted>>

(* --------------------------- call records ------------------------------- *)

RegistrationOps == {"register", "unregister"}

TopicOps == {"subscribe", "unsubscribe"}

NotificationOps == {"notificationHandled", "clearNotifications", "clearNotification"}

Ops == RegistrationOps \cup TopicOps \cup NotificationOps

Settled == {"resolved", "rejected"}

IdleCall ==
  [ op          |-> "none",
    pc          |-> "idle",
    old         |-> None,       \* `var old` of register (part_002)
    error       |-> NoError,    \* `error` caught by register's catch
    failStep    |-> "none",     \* step whose failure entered the catch
    current     |-> None,       \* report.current
    previous    |-> None,       \* report.previous
    hasChanged  |-> FALSE,      \* report.hasChanged
    value       |-> None,       \* value a non-register call resolved with
    reason      |-> NoError,    \* error the call rejected with
    log         |-> << >>,      \* native calls issued by this call
    pending     |-> FALSE,      \* a native call whose result the call's promise may no longer await
    startReg    |-> FALSE,      \* isRegistered() when the body started
    startPlugin |-> NoPlugin,   \* plugin when the body started
    startToken  |-> None,       \* cached token when the body started
    arg         |-> << >>,      \* number the call was given (empty: no argument)
    read        |-> << >>,      \* value incrementBadgeNumber got from getBadgeNumber
    sent        |-> << >>,      \* number passed to the native setBadgeNumber
    num         |-> << >>,      \* number the call resolved with
    overlapped  |-> FALSE ]     \* was another call in flight at some moment of this call

InFlight(c) == calls[c].pc \notin ({"idle", "thrown"} \cup Settled)

NoFlight == \A c \in Calls : ~InFlight(c)

(* ----------------------- helpers of the service ------------------------- *)

\* service.isRegistered: part_000 `!!(plugin && service.getDeviceToken())`,
\* part_002 `!!plugin`.
isRegistered(p, t) ==
  IF variant \in TokenCheckVariants THEN p # NoPlugin /\ t # None ELSE p # NoPlugin

\* checkRegistration without its test: every operation goes on to the native call.
checkRegistrationSkipped(p, t) == TRUE

\* checkRegistration(reject): TRUE when the operation may go on to the
\* native call, FALSE when it has rejected with NOT_INITIALIZED.
checkRegistration(p, t) == isRegistered(p, t)

\* The continuation of unregister without the cache eviction.
clearRegistrationKeepsToken(p, t) == [plugin |-> NoPlugin, token |-> t, ret |-> t]

\* The continuation of service.unregister:
\*   plugin = null; return getCache().remove(DEVICE_TOKEN_CACHE_KEY);
\* `ret` is what the promise passes on ("Passing the device token, if any").
clearRegistration(p, t) == [plugin |-> NoPlugin, token |-> None, ret |-> t]

\* unregister returns before anything is touched, in every revision.
unregisterIdleReturns(p, t) == [plugin |-> p, token |-> t, ret |-> None]

\* service.unregister when isRegistered() is false.
\* part_000: `return $q.when()` before anything is touched.
\* part_002: `$q.when()` is chained into the same continuation.
unregisterIdle(p, t) ==
  IF variant \in TokenCheckVariants
    THEN [plugin |-> p, token |-> t, ret |-> None]
    ELSE clearRegistration(p, t)

\* register, first continuation (part_002): `if (token) { old = token; }`
\* part_000 has no `old` variable at this point.
oldAfterUnregister(ret) ==
  IF variant \in TokenCheckVariants THEN None ELSE ret

\* `previous` read from the cache after the implicit unregister, in every revision.
previousOfCache(old, cached) == cached

\* `previous` of the report.  part_000 reads the cache just before the put
\* (`var old = service.getDeviceToken()`); part_002 uses the closure `old`.
previousOf(old, cached) ==
  IF variant = "part_000" THEN cached ELSE old

\* The report names the previous token as the current one.
reportPrevious(tok, prev) == [current |-> prev, previous |-> prev, hasChanged |-> tok # prev]

\* The report register resolves with.
report(tok, prev) == [current |-> tok, previous |-> prev, hasChanged |-> tok # prev]

\* function off() { plugin.off('error', reject); }
\* `plugin` is read when off runs.  The listener leaves instance c only if
\* plugin is still that instance; with plugin null the call throws inside the
\* finally callback and nothing is detached; on another instance the handler
\* is not attached and off is a no-op.
off(c, p, L) == IF p = c THEN L \ {c} ELSE L

\* Platforms a notification operation is restricted to: 'ios' for
\* notificationHandled, ['ios', 'android'] for the clear operations.
allowList(op) ==
  IF op = "notificationHandled" THEN {"ios"} ELSE {"ios", "android"}

\* cordovaUtils.ifPlatformWhenReady(platforms, fn, fallback) of part_002: fn
\* runs on a platform of the list, elsewhere the call resolves with the
\* fallback without running fn.
ifPlatform(op, pf) == pf \in allowList(op)

\* checkPlatform / checkPlatforms of part_000: their boolean result.
checkPlatforms(op, pf) == pf \in allowList(op)

\* Name of the native call a topic or notification operation issues.
nativeOf(op) ==
  CASE op = "subscribe"           -> "subscribe"
    [] op = "unsubscribe"         -> "unsubscribe"
    [] op = "notificationHandled" -> "finish"
    [] op = "clearNotifications"  -> "clearAllNotifications"
    [] op = "clearNotification"   -> "clearNotification"

\* Operations a revision offers (clearNotification is absent from part_000).
OpsOf(v) == IF v \in CheckPlatformVariants THEN Ops \ {"clearNotification"} ELSE Ops

(* ------------------------------- Init ----------------------------------- *)

\* The constructor has run in a host with the plugin and has defined the
\* operations.
Constructed ==
  /\ cordova = TRUE
  /\ globals = TRUE
  /\ service = "operations"
  /\ logged = NoError

\* The state the constructor finds, in one of the revisions vs, with one of
\* the cache contents ts.
Fresh(vs, ts) ==
  /\ variant \in vs
  /\ platform \in Platforms
  /\ ready = FALSE
  /\ plugin = NoPlugin
  /\ token \in ts
  /\ listeners = {}
  /\ calls = [c \in Calls |-> IdleCall]
  /\ used = 0
  /\ badge = 0
  /\ handlers = [h \in Handlers |-> "unused"]
  /\ inbox = [h \in Handlers |-> << >>]
  /\ emitted = 0
  /\ defaults = DEFAULT_SETTINGS
  /\ options = EmptyObject
  /\ settings = EmptyObject

\* The service just constructed, in one of the revisions vs, with one of the
\* cache contents ts.
InitWith(vs, ts) == Fresh(vs, ts) /\ Constructed

\* A first session: nothing is cached.
Init == InitWith(Variants, {None})

(* ------------------------------ actions --------------------------------- *)

\* The host readiness signal fires.
Ready ==
  /\ ~ready
  /\ ready' = TRUE
  /\ UNCHANGED <<badge, relay, setup, variant, platform, plugin, token, listeners, calls, used>>

\* The application calls service.<op>(); whenReady defers the body.
Invoke(c, op) ==
  /\ used < MaxCalls
  /\ c = used + 1
  /\ service = "operations"
  /\ op \in OpsOf(variant)
  /\ calls' = [calls EXCEPT ![c].op = op, ![c].pc = "queued"]
  /\ used' = c
  /\ UNCHANGED <<badge, relay, setup, variant, platform, ready, plugin, token, listeners>>

\* Snapshot taken when the body of a call starts.
Started(c) ==
  [calls[c] EXCEPT !.startReg = isRegistered(plugin, token),
                   !.startPlugin = plugin,
                   !.startToken = token]

\* register's `.catch(function (error) { return service.unregister().then(restore); })`
\* entered with error e from `step`; r is the call record so far.
Catch(c, e, step, r) ==
  LET r1 == [r EXCEPT !.error = e, !.failStep = step] IN
  IF variant = ORIGINAL
    THEN \* no catch in push.service.js: the rejection is what register returns
         /\ calls' = [calls EXCEPT ![c] = [r1 EXCEPT !.pc = "rejected", !.reason = e]]
         /\ UNCHANGED <<plugin, token>>
  ELSE IF isRegistered(plugin, token)
    THEN /\ calls' = [calls EXCEPT ![c] =
                        [r1 EXCEPT !.pc = "rollback", !.log = Append(@, "unregister")]]
         /\ UNCHANGED <<plugin, token>>
    ELSE LET u == unregisterIdle(plugin, token) IN
         /\ plugin' = u.plugin
         /\ token' = u.token
         /\ calls' = [calls EXCEPT ![c] = [r1 EXCEPT !.pc = "rejected", !.reason = e]]

\* register issues initialize without waiting for its native unregister.
RunRegisterEager(c) ==
  /\ ready
  /\ calls[c].pc = "queued" /\ calls[c].op = "register"
  /\ calls' = [calls EXCEPT ![c] =
       [Started(c) EXCEPT !.pc = "init",
          !.log = IF isRegistered(plugin, token)
                    THEN <<"unregister", "initialize">> ELSE <<"initialize">>]]
  /\ UNCHANGED <<badge, relay, setup, variant, platform, ready, plugin, token, listeners, used>>

\* register body up to the first native call:
\*   var old = undefined; service.unregister() ...
RunRegister(c) ==
  /\ ready
  /\ calls[c].pc = "queued" /\ calls[c].op = "register"
  /\ IF isRegistered(plugin, token)
       THEN /\ calls' = [calls EXCEPT ![c] =
                           [Started(c) EXCEPT !.pc = "unreg", !.log = Append(@, "unregister")]]
            /\ UNCHANGED <<plugin, token>>
       ELSE LET u == unregisterIdle(plugin, token) IN
            /\ plugin' = u.plugin
            /\ token' = u.token
            /\ calls' = [calls EXCEPT ![c] =
                           [Started(c) EXCEPT !.pc = "init",
                                              !.old = oldAfterUnregister(u.ret),
                                              !.log = Append(@, "initialize")]]
  /\ UNCHANGED <<badge, relay, setup, variant, platform, ready, listeners, used>>

\* $pushV5.unregister() issued by register's implicit unregister resolves.
RegisterUnregisterResolves(c) ==
  /\ calls[c].pc = "unreg" /\ calls[c].op = "register"
  /\ LET u == clearRegistration(plugin, token) IN
     /\ plugin' = u.plugin
     /\ token' = u.token
     /\ calls' = [calls EXCEPT ![c].pc = "init",
                               ![c].old = oldAfterUnregister(u.ret),
                               ![c].log = Append(@, "initialize")]
  /\ UNCHANGED <<badge, relay, setup, variant, platform, ready, listeners, used>>

\* ... or rejects: the chain skips to the catch.
RegisterUnregisterRejects(c, e) ==
  /\ calls[c].pc = "unreg" /\ calls[c].op = "register"
  /\ Catch(c, e, "unregister", calls[c])
  /\ UNCHANGED <<badge, relay, setup, variant, platform, ready, listeners, used>>

\* $pushV5.initialize(settings) resolves with a new instance (named after
\* the call): plugin = instance; plugin.on('error', reject); $pushV5.register().
InitializeResolves(c) ==
  /\ calls[c].pc = "init"
  /\ plugin' = c
  /\ listeners' = listeners \cup {c}
  /\ calls' = [calls EXCEPT ![c].pc = "reg",
                            ![c].pending = TRUE,
                            ![c].log = Append(@, "register")]
  /\ UNCHANGED <<badge, relay, setup, variant, platform, ready, token, used>>

InitializeRejects(c, e) ==
  /\ calls[c].pc = "init"
  /\ Catch(c, e, "initialize", calls[c])
  /\ UNCHANGED <<badge, relay, setup, variant, platform, ready, listeners, used>>

\* $pushV5.register() resolves with a token: resolve(token), then off().
\* When the registration promise is still pending the chain goes on:
\*   getCache().put(KEY, token); return {current, previous, hasChanged}.
RegisterNativeResolves(c, tok) ==
  /\ calls[c].op = "register" /\ calls[c].pending
  /\ listeners' = off(c, plugin, listeners)
  /\ IF calls[c].pc = "reg"
       THEN LET rep == report(tok, previousOf(calls[c].old, token)) IN
            /\ token' = tok
            /\ calls' = [calls EXCEPT ![c].pc = "resolved",
                                      ![c].pending = FALSE,
                                      ![c].current = rep.current,
                                      ![c].previous = rep.previous,
                                      ![c].hasChanged = rep.hasChanged]
       ELSE /\ calls' = [calls EXCEPT ![c].pending = FALSE]
            /\ UNCHANGED token
  /\ UNCHANGED <<badge, relay, setup, variant, platform, ready, plugin, used>>

\* $pushV5.register() rejects: reject(error), then off(), then the catch.
\* The rejection of the native register is dropped by every revision.
RegisterNativeRejectsDropped(c, e) ==
  /\ calls[c].op = "register" /\ calls[c].pending
  /\ calls' = [calls EXCEPT ![c].pending = FALSE]
  /\ UNCHANGED <<badge, relay, setup, variant, platform, ready, plugin, token, listeners, used>>

\* push.service.js: `$cordovaPushV5.register().then(deferred.resolve)` has
\* no rejection handler: the deferred stays as it is, cleanup does not run.
RegisterNativeRejects(c, e) ==
  /\ calls[c].op = "register" /\ calls[c].pending
  /\ IF variant = ORIGINAL
       THEN /\ calls' = [calls EXCEPT ![c].pending = FALSE,
                                      ![c].error = IF calls[c].pc = "reg" THEN e ELSE @,
                                      ![c].failStep = IF calls[c].pc = "reg" THEN "register" ELSE @]
            /\ UNCHANGED <<plugin, token, listeners>>
       ELSE /\ listeners' = off(c, plugin, listeners)
            /\ IF calls[c].pc = "reg"
                 THEN Catch(c, e, "register", [calls[c] EXCEPT !.pending = FALSE])
                 ELSE /\ calls' = [calls EXCEPT ![c].pending = FALSE]
                      /\ UNCHANGED <<plugin, token>>
  /\ UNCHANGED <<badge, relay, setup, variant, platform, ready, used>>

\* The instance emits 'error' while the registration promise is pending:
\* the transient listener rejects it and the chain enters the catch.  The
\* listener stays attached: off() hangs on the native register promise.
\* push.service.js: the listener rejects the deferred and
\* `deferred.promise.finally(cleanup)` detaches it.
PluginError(c, e) ==
  /\ c \in listeners
  /\ calls[c].pc = "reg"
  /\ Catch(c, e, "event", calls[c])
  /\ listeners' = IF variant = ORIGINAL THEN off(c, plugin, listeners) ELSE listeners
  /\ UNCHANGED <<badge, relay, setup, variant, platform, ready, used>>

\* The native unregister issued by the catch resolves: the continuation of
\* unregister runs, then restore() re-rejects with the caught error.
RollbackResolves(c) ==
  /\ calls[c].pc = "rollback"
  /\ LET u == clearRegistration(plugin, token) IN
     /\ plugin' = u.plugin
     /\ token' = u.token
  /\ calls' = [calls EXCEPT ![c].pc = "rejected", ![c].reason = calls[c].error]
  /\ UNCHANGED <<badge, relay, setup, variant, platform, ready, listeners, used>>

\* ... or rejects: `.then(restore)` is skipped and that rejection is returned.
RollbackRejects(c, e) ==
  /\ calls[c].pc = "rollback"
  /\ calls' = [calls EXCEPT ![c].pc = "rejected", ![c].reason = e]
  /\ UNCHANGED <<badge, relay, setup, variant, platform, ready, plugin, token, listeners, used>>

\* service.unregister body.
RunUnregister(c) ==
  /\ ready
  /\ calls[c].pc = "queued" /\ calls[c].op = "unregister"
  /\ IF isRegistered(plugin, token)
       THEN /\ calls' = [calls EXCEPT ![c] =
                           [Started(c) EXCEPT !.pc = "unreg", !.log = Append(@, "unregister")]]
            /\ UNCHANGED <<plugin, token>>
       ELSE LET u == unregisterIdle(plugin, token) IN
            /\ plugin' = u.plugin
            /\ token' = u.token
            /\ calls' = [calls EXCEPT ![c] =
                           [Started(c) EXCEPT !.pc = "resolved", !.value = u.ret]]
  /\ UNCHANGED <<badge, relay, setup, variant, platform, ready, listeners, used>>

UnregisterResolves(c) ==
  /\ calls[c].pc = "unreg" /\ calls[c].op = "unregister"
  /\ LET u == clearRegistration(plugin, token) IN
     /\ plugin' = u.plugin
     /\ token' = u.token
     /\ calls' = [calls EXCEPT ![c].pc = "resolved", ![c].value = u.ret]
  /\ UNCHANGED <<badge, relay, setup, variant, platform, ready, listeners, used>>

\* The handle is cleared and the token evicted whatever the native call did.
UnregisterRejectsClearing(c, e) ==
  /\ calls[c].pc = "unreg" /\ calls[c].op = "unregister"
  /\ plugin' = NoPlugin
  /\ token' = None
  /\ calls' = [calls EXCEPT ![c].pc = "rejected", ![c].reason = e]
  /\ UNCHANGED <<badge, relay, setup, variant, platform, ready, listeners, used>>

\* $pushV5.unregister() rejects: the continuation is skipped.
UnregisterRejects(c, e) ==
  /\ calls[c].pc = "unreg" /\ calls[c].op = "unregister"
  /\ calls' = [calls EXCEPT ![c].pc = "rejected", ![c].reason = e]
  /\ UNCHANGED <<badge, relay, setup, variant, platform, ready, plugin, token, listeners, used>>

(* ------------------- topic and notification operations ------------------ *)

\* What the synchronous part of a topic or notification operation does in
\* part_002.  subscribe / unsubscribe are whenReady(fn); the notification
\* operations are ifPlatformWhenReady(platforms, fn): the platform test
\* comes first and fn, which starts with checkRegistration, runs only on an
\* allowed platform.
dispatch002(op, pf, p, t) ==
  IF op \in NotificationOps /\ ~ifPlatform(op, pf) THEN "fallback"
  ELSE IF ~checkRegistration(p, t) THEN "notInitialized"
  ELSE "native"

\* checkPlatform / checkPlatforms of part_000 call resolve(fallback) for every
\* name tried before a match: _.some(['ios', 'android'], ...) has already
\* resolved the promise when it reaches 'android'.
resolvedBeforeMatch(pf) == pf # "ios"

\* The same in part_000: notificationHandled only tests the platform and
\* calls $cordovaPushV5.finish(); clearNotifications tests the registration
\* first and the platforms second.
dispatch000(op, pf, p, t) ==
  IF op \in TopicOps
    THEN IF checkRegistration(p, t) THEN "native" ELSE "notInitialized"
  ELSE IF op = "notificationHandled"
    THEN IF checkPlatforms(op, pf) THEN "native" ELSE "fallback"
  ELSE IF ~checkRegistration(p, t) THEN "notInitialized"
  ELSE IF ~checkPlatforms(op, pf) THEN "fallback"
  ELSE IF resolvedBeforeMatch(pf) THEN "nativeAfterFallback"
  ELSE "native"

dispatch(op, pf, p, t) ==
  IF variant \in CheckPlatformVariants THEN dispatch000(op, pf, p, t) ELSE dispatch002(op, pf, p, t)

\* Body of subscribe, unsubscribe, notificationHandled, clearNotifications,
\* clearNotification.
RunOperation(c) ==
  /\ ready
  /\ calls[c].pc = "queued" /\ calls[c].op \in TopicOps \cup NotificationOps
  /\ LET d == dispatch(calls[c].op, platform, plugin, token)
         r == Started(c) IN
     calls' = [calls EXCEPT ![c] =
       CASE d = "fallback" ->
              [r EXCEPT !.pc = "resolved", !.value = None]
         [] d = "notInitialized" ->
              [r EXCEPT !.pc = "rejected", !.reason = NOT_INITIALIZED]
         [] d = "native" ->
              [r EXCEPT !.pc = "native", !.pending = TRUE,
                        !.log = Append(@, nativeOf(r.op))]
         [] d = "nativeAfterFallback" ->
              [r EXCEPT !.pc = "resolved", !.value = None, !.pending = TRUE,
                        !.log = Append(@, nativeOf(r.op))]]
  /\ UNCHANGED <<badge, relay, setup, variant, platform, ready, plugin, token, listeners, used>>

\* The native call of such an operation succeeds (these calls pass no value).
OperationResolves(c) ==
  /\ calls[c].op \in TopicOps \cup NotificationOps /\ calls[c].pending
  /\ calls' = [calls EXCEPT ![c] =
       IF calls[c].pc = "native"
         THEN [@ EXCEPT !.pc = "resolved", !.value = None, !.pending = FALSE]
         ELSE [@ EXCEPT !.pending = FALSE]]
  /\ UNCHANGED <<badge, relay, setup, variant, platform, ready, plugin, token, listeners, used>>

OperationRejects(c, e) ==
  /\ calls[c].op \in TopicOps \cup NotificationOps /\ calls[c].pending
  /\ calls' = [calls EXCEPT ![c] =
       IF calls[c].pc = "native"
         THEN [@ EXCEPT !.pc = "rejected", !.reason = e, !.pending = FALSE]
         ELSE [@ EXCEPT !.pending = FALSE]]
  /\ UNCHANGED <<badge, relay, setup, variant, platform, ready, plugin, token, listeners, used>>

(* ------------------------------ event relay ----------------------------- *)

RelayOps == {"onNotification", "onError"}

\* service.onNotification = _.partial(listenTo, EVENTS.ON_NOTIFICATION);
\* service.onError = _.partial(listenTo, EVENTS.ON_ERROR).
eventOf(op) == IF op = "onNotification" THEN ON_NOTIFICATION ELSE ON_ERROR

\* A root scope listener is called with ($event, payload); $event is
\* represented by the name of the event.
scopeArgs(name, payload) == <<name, payload>>

\* _.rearg(handler, 1, 0) passed through unchanged.
reargIdentity(args) == args

\* _.rearg(handler, 1, 0): the handler gets the listener's second argument
\* first and its first argument second.
rearg(args) == <<args[2], args[1]>>

\* $rootScope.$on(event, ...): the listeners of `name` are the handlers
\* attached to it and not deregistered.
listening(H, name) == {h \in Handlers : H[h] = name}

\* One event handed to every listener of its name, each through rearg.
deliver(H, I, name, payload) ==
  [h \in Handlers |->
     IF h \in listening(H, name)
       THEN Append(I[h], rearg(scopeArgs(name, payload)))
       ELSE I[h]]

\* service.onNotification(handler) / service.onError(handler): listenTo
\* attaches handler h; the call returns at once (it is not deferred until the
\* host is ready) with the deregistration function.
Listen(c, op, h) ==
  /\ used < MaxCalls
  /\ c = used + 1
  /\ op \in RelayOps
  /\ handlers[h] = "unused"
  /\ \A g \in Handlers : g < h => handlers[g] # "unused"
  /\ handlers' = [handlers EXCEPT ![h] = eventOf(op)]
  /\ calls' = [calls EXCEPT ![c] = [Started(c) EXCEPT !.op = op, !.pc = "resolved"]]
  /\ used' = c
  /\ UNCHANGED <<setup, variant, platform, ready, plugin, token, listeners, badge, inbox, emitted>>

\* The deregistration function returned for handler h is called.
Deregister(h) ==
  /\ handlers[h] \in EventNames
  /\ handlers' = [handlers EXCEPT ![h] = "deregistered"]
  /\ UNCHANGED <<setup, variant, platform, ready, plugin, token, listeners, calls, used,
                 badge, inbox, emitted>>

\* $cordovaPushV5 emits an event of one of the two names on the root scope.
Emit(name, payload) ==
  /\ emitted < MaxEvents
  /\ name \in EventNames
  /\ inbox' = deliver(handlers, inbox, name, payload)
  /\ emitted' = emitted + 1
  /\ UNCHANGED <<setup, variant, platform, ready, plugin, token, listeners, calls, used,
                 badge, handlers>>

\* The relay alone: handlers come and go while events are emitted.
NextRelay ==
  \/ \E c \in Calls, op \in RelayOps, h \in Handlers : Listen(c, op, h)
  \/ \E h \in Handlers : Deregister(h)
  \/ \E name \in EventNames, payload \in Payloads : Emit(name, payload)

SpecRelay == Init /\ [][NextRelay]_vars

(* ------------- badge, permission, channel and query operations ---------- *)

BadgeOps == {"getBadgeNumber", "setBadgeNumber", "incrementBadgeNumber"}

ChannelOps == {"createChannel", "deleteChannel", "listChannels"}

QueryOps == {"isRegistered", "getDeviceToken"}

\* Operations that issue one native call behind a platform test.
SimpleOps == {"getBadgeNumber", "setBadgeNumber", "checkPermission"} \cup ChannelOps

ExtraOps == BadgeOps \cup ChannelOps \cup {"checkPermission"}

\* The channel operations only exist in part_002.
ExtraOpsOf(v) == IF v \in CheckPlatformVariants THEN ExtraOps \ ChannelOps ELSE ExtraOps

Numbers == 0..MaxNumber

\* Argument lists of setBadgeNumber / incrementBadgeNumber.
ArgLists == {<< >>} \cup {<<n>> : n \in Numbers}

ArgsOf(op) == IF op \in {"setBadgeNumber", "incrementBadgeNumber"} THEN ArgLists ELSE {<< >>}

\* The default increment is lost.
numberOfZero(op, args) ==
  IF args # << >> THEN args[1] ELSE 0

\* setBadgeNumber: `if (!arguments.length) { number = 0; }`
\* incrementBadgeNumber: `if (!arguments.length) { number = 1; }`
numberOf(op, args) ==
  IF args # << >> THEN args[1]
  ELSE IF op = "setBadgeNumber" THEN 0 ELSE 1

\* No operation waits for the host.
wrappedNever(op) == FALSE

\* Is the operation wrapped, as a whole, by whenReady / ifPlatformWhenReady?
\* In part_002 incrementBadgeNumber is a plain function.
wrapped(op) ==
  ~(op = "incrementBadgeNumber" /\ variant \notin CheckPlatformVariants)

\* Platforms on which the operation reaches its native call.
\* part_002: ifPlatformWhenReady(['ios', 'android'], ...) for the badge,
\* ifPlatformWhenReady('android', ...) for the channels, no test in
\* checkPermission.  part_000 / part_001: checkPlatform('ios', ...) in
\* getBadgeNumber, checkPlatforms(['ios', 'android'], ...) in setBadgeNumber
\* and checkPermission.
platformsOf(op) ==
  IF variant \in CheckPlatformVariants
    THEN IF op = "getBadgeNumber" THEN {"ios"} ELSE {"ios", "android"}
    ELSE IF op \in ChannelOps THEN {"android"}
         ELSE IF op = "checkPermission" THEN Platforms
         ELSE {"ios", "android"}

\* No platform test at all.
gateOpen(op, pf) == "native"

\* Outcome of the platform test of an operation:
\*   "fallback"             resolved with the fallback, no native call;
\*   "native"               native call issued, promise pending;
\*   "nativeAfterFallback"  checkPlatforms resolved the promise with the
\*                          fallback on a name that did not match and then
\*                          matched: the native call is issued all the same.
gate(op, pf) ==
  IF pf \notin platformsOf(op) THEN "fallback"
  ELSE IF variant \in CheckPlatformVariants /\ resolvedBeforeMatch(pf)
    THEN "nativeAfterFallback"
  ELSE "native"

\* The call record resolved with the fallback of its operation: -1 for the
\* badge, null for checkPermission, createChannel and listChannels, nothing
\* for deleteChannel.
withFallback(r) ==
  IF r.op \in BadgeOps THEN [r EXCEPT !.pc = "resolved", !.num = <<UNSUPPORTED>>]
  ELSE IF r.op = "deleteChannel" THEN [r EXCEPT !.pc = "resolved", !.value = None]
  ELSE [r EXCEPT !.pc = "resolved", !.value = "null"]

\* Name of the native call of a simple operation.
nativeName(op) == IF op = "checkPermission" THEN "hasPermission" ELSE op

\* Values a native call passes to its success callback.
NativeResults(op) ==
  IF op = "checkPermission" THEN {"true", "false"} ELSE {"ok"}

\* The application calls one of the badge, permission or channel operations.
InvokeExtra(c, op, args) ==
  /\ used < MaxCalls
  /\ c = used + 1
  /\ service = "operations"
  /\ op \in ExtraOpsOf(variant)
  /\ args \in ArgsOf(op)
  /\ calls' = [calls EXCEPT ![c].op = op, ![c].pc = "queued", ![c].arg = args]
  /\ used' = c
  /\ UNCHANGED <<badge, relay, setup, variant, platform, ready, plugin, token, listeners>>

\* Body of getBadgeNumber, setBadgeNumber, checkPermission, createChannel,
\* deleteChannel, listChannels.
RunSimple(c) ==
  /\ wrapped(calls[c].op) => ready
  /\ calls[c].pc = "queued" /\ calls[c].op \in SimpleOps
  /\ LET r == Started(c)
         g == gate(r.op, platform)
         n == numberOf(r.op, r.arg)
         issued == [r EXCEPT !.pending = TRUE,
                             !.log = Append(@, nativeName(r.op)),
                             !.sent = IF r.op = "setBadgeNumber" THEN <<n>> ELSE << >>]
     IN calls' = [calls EXCEPT ![c] =
          CASE g = "fallback" -> withFallback(r)
            [] g = "native" -> [issued EXCEPT !.pc = "native"]
            [] g = "nativeAfterFallback" -> withFallback(issued)]
  /\ UNCHANGED <<badge, relay, setup, variant, platform, ready, plugin, token, listeners, used>>

\* The native call of a simple operation succeeds, passing v.  A native
\* setBadgeNumber sets the badge; a native getBadgeNumber passes the badge.
SimpleResolves(c, v) ==
  /\ calls[c].op \in SimpleOps /\ calls[c].pending
  /\ v \in NativeResults(calls[c].op)
  /\ badge' = IF calls[c].op = "setBadgeNumber" THEN calls[c].sent[1] ELSE badge
  /\ calls' = [calls EXCEPT ![c] =
       IF calls[c].pc # "native" THEN [@ EXCEPT !.pending = FALSE]
       ELSE IF calls[c].op = "getBadgeNumber"
         THEN [@ EXCEPT !.pc = "resolved", !.pending = FALSE, !.num = <<badge>>]
       ELSE IF calls[c].op = "setBadgeNumber"
         THEN [@ EXCEPT !.pc = "resolved", !.pending = FALSE, !.num = calls[c].sent]
       ELSE [@ EXCEPT !.pc = "resolved", !.pending = FALSE, !.value = v]]
  /\ UNCHANGED <<relay, setup, variant, platform, ready, plugin, token, listeners, used>>

SimpleRejects(c, e) ==
  /\ calls[c].op \in SimpleOps /\ calls[c].pending
  /\ calls' = [calls EXCEPT ![c] =
       IF calls[c].pc = "native"
         THEN [@ EXCEPT !.pc = "rejected", !.reason = e, !.pending = FALSE]
         ELSE [@ EXCEPT !.pending = FALSE]]
  /\ UNCHANGED <<badge, relay, setup, variant, platform, ready, plugin, token, listeners, used>>

\* incrementBadgeNumber: the default is applied and service.getBadgeNumber()
\* is called; that call is itself deferred until the host is ready.
RunIncrement(c) ==
  /\ wrapped(calls[c].op) => ready
  /\ calls[c].pc = "queued" /\ calls[c].op = "incrementBadgeNumber"
  /\ calls' = [calls EXCEPT ![c] = [Started(c) EXCEPT !.pc = "getQueued"]]
  /\ UNCHANGED <<badge, relay, setup, variant, platform, ready, plugin, token, listeners, used>>

\* The value read is dropped: `service.setBadgeNumber(number)`.
incrementSetNumber(r, value) ==
  [r EXCEPT !.read = <<value>>, !.pc = "set", !.pending = TRUE,
            !.log = Append(@, "setBadgeNumber"),
            !.sent = <<numberOf(r.op, r.arg)>>]

\* `service.setBadgeNumber(value + number)` called by incrementBadgeNumber
\* once getBadgeNumber has passed `value`; r is the call record so far.
incrementSet(r, value) ==
  LET g == gate("setBadgeNumber", platform)
      r1 == [r EXCEPT !.read = <<value>>]
      issued == [r1 EXCEPT !.pending = TRUE,
                           !.log = Append(@, "setBadgeNumber"),
                           !.sent = <<value + numberOf(r.op, r.arg)>>]
  IN CASE g = "fallback" -> withFallback(r1)
       [] g = "native" -> [issued EXCEPT !.pc = "set"]
       [] g = "nativeAfterFallback" -> withFallback(issued)

\* Body of the getBadgeNumber called by incrementBadgeNumber.
IncrementGet(c) ==
  /\ wrapped("getBadgeNumber") => ready
  /\ calls[c].pc = "getQueued"
  /\ calls' = [calls EXCEPT ![c] =
       IF gate("getBadgeNumber", platform) = "fallback"
         THEN incrementSet(calls[c], UNSUPPORTED)
         ELSE [@ EXCEPT !.pc = "get", !.log = Append(@, "getBadgeNumber")]]
  /\ UNCHANGED <<badge, relay, setup, variant, platform, ready, plugin, token, listeners, used>>

\* The native getBadgeNumber passes the badge: setBadgeNumber is called.
IncrementGetResolves(c) ==
  /\ calls[c].pc = "get"
  /\ calls' = [calls EXCEPT ![c] = incrementSet(calls[c], badge)]
  /\ UNCHANGED <<badge, relay, setup, variant, platform, ready, plugin, token, listeners, used>>

IncrementGetRejects(c, e) ==
  /\ calls[c].pc = "get"
  /\ calls' = [calls EXCEPT ![c].pc = "rejected", ![c].reason = e]
  /\ UNCHANGED <<badge, relay, setup, variant, platform, ready, plugin, token, listeners, used>>

\* The native setBadgeNumber issued by incrementBadgeNumber succeeds.
IncrementSetResolves(c) ==
  /\ calls[c].op = "incrementBadgeNumber" /\ calls[c].pending
  /\ badge' = calls[c].sent[1]
  /\ calls' = [calls EXCEPT ![c] =
       IF calls[c].pc = "set"
         THEN [@ EXCEPT !.pc = "resolved", !.pending = FALSE, !.num = calls[c].sent]
         ELSE [@ EXCEPT !.pending = FALSE]]
  /\ UNCHANGED <<relay, setup, variant, platform, ready, plugin, token, listeners, used>>

IncrementSetRejects(c, e) ==
  /\ calls[c].op = "incrementBadgeNumber" /\ calls[c].pending
  /\ calls' = [calls EXCEPT ![c] =
       IF calls[c].pc = "set"
         THEN [@ EXCEPT !.pc = "rejected", !.reason = e, !.pending = FALSE]
         ELSE [@ EXCEPT !.pending = FALSE]]
  /\ UNCHANGED <<badge, relay, setup, variant, platform, ready, plugin, token, listeners, used>>

\* getDeviceToken reads the cache with remove() in place of get().
QueryEvicting(c, op) ==
  /\ used < MaxCalls
  /\ c = used + 1
  /\ op \in QueryOps
  /\ calls' = [calls EXCEPT ![c] =
       [Started(c) EXCEPT !.op = op, !.pc = "resolved", !.value = token]]
  /\ used' = c
  /\ token' = None
  /\ UNCHANGED <<badge, relay, setup, variant, platform, ready, plugin, listeners>>

\* service.isRegistered() / service.getDeviceToken(): answered at once.
Query(c, op) ==
  /\ used < MaxCalls
  /\ c = used + 1
  /\ op \in QueryOps
  /\ calls' = [calls EXCEPT ![c] =
       [Started(c) EXCEPT !.op = op, !.pc = "resolved",
          !.value = IF op = "getDeviceToken" THEN token
                    ELSE IF isRegistered(plugin, token) THEN "true" ELSE "false"]]
  /\ used' = c
  /\ UNCHANGED <<badge, relay, setup, variant, platform, ready, plugin, token, listeners>>

\* Steps of the badge, permission and channel operations.
ExtraSteps ==
  \/ \E c \in Calls : RunSimple(c)
  \/ \E c \in Calls, v \in {"true", "false", "ok"} : SimpleResolves(c, v)
  \/ \E c \in Calls, e \in NativeErrors : SimpleRejects(c, e)
  \/ \E c \in Calls : RunIncrement(c)
  \/ \E c \in Calls : IncrementGet(c)
  \/ \E c \in Calls : IncrementGetResolves(c)
  \/ \E c \in Calls, e \in NativeErrors : IncrementGetRejects(c, e)
  \/ \E c \in Calls : IncrementSetResolves(c)
  \/ \E c \in Calls, e \in NativeErrors : IncrementSetRejects(c, e)

\* The badge and permission operations, called without waiting for one
\* another.
InitCheckPlatform == InitWith({"part_001"}, {None})

InitIfPlatform == InitWith({"part_002"}, {None})

InvokeBadge(c, op, args) == op \notin ChannelOps /\ InvokeExtra(c, op, args)

NextBadge ==
  \/ Ready
  \/ \E c \in Calls, op \in ExtraOps, args \in ArgLists : InvokeBadge(c, op, args)
  \/ ExtraSteps

\* part_001: checkPlatform / checkPlatforms inside the operations.
SpecBadgeCheckPlatform == InitCheckPlatform /\ [][NextBadge]_vars

\* part_002: operations wrapped in ifPlatformWhenReady.
SpecBadgeIfPlatform == InitIfPlatform /\ [][NextBadge]_vars

(* --------------------------- specification ------------------------------ *)

\* Calls are made one after the other: the application awaits each call
\* before it makes the next one.
InvokeAwaited(c, op) == NoFlight /\ Invoke(c, op)

Next ==
  \/ Ready
  \/ \E c \in Calls, op \in Ops : InvokeAwaited(c, op)
  \/ \E c \in Calls : RunRegister(c)
  \/ \E c \in Calls : RegisterUnregisterResolves(c)
  \/ \E c \in Calls, e \in NativeErrors : RegisterUnregisterRejects(c, e)
  \/ \E c \in Calls : InitializeResolves(c)
  \/ \E c \in Calls, e \in NativeErrors : InitializeRejects(c, e)
  \/ \E c \in Calls, tok \in Tokens : RegisterNativeResolves(c, tok)
  \/ \E c \in Calls, e \in NativeErrors : RegisterNativeRejects(c, e)
  \/ \E c \in Calls, e \in NativeErrors : PluginError(c, e)
  \/ \E c \in Calls : RollbackResolves(c)
  \/ \E c \in Calls, e \in NativeErrors : RollbackRejects(c, e)
  \/ \E c \in Calls : RunUnregister(c)
  \/ \E c \in Calls : UnregisterResolves(c)
  \/ \E c \in Calls, e \in NativeErrors : UnregisterRejects(c, e)
  \/ \E c \in Calls : RunOperation(c)
  \/ \E c \in Calls : OperationResolves(c)
  \/ \E c \in Calls, e \in NativeErrors : OperationRejects(c, e)

Spec == Init /\ [][Next]_vars

\* The registration lifecycle of push.service.js.
InitOriginal == InitWith({ORIGINAL}, {None})

InvokeRegistration(c, op) == op \in RegistrationOps /\ InvokeAwaited(c, op)

NextOriginal ==
  \/ Ready
  \/ \E c \in Calls, op \in Ops : InvokeRegistration(c, op)
  \/ \E c \in Calls : RunRegister(c)
  \/ \E c \in Calls : RegisterUnregisterResolves(c)
  \/ \E c \in Calls, e \in NativeErrors : RegisterUnregisterRejects(c, e)
  \/ \E c \in Calls : InitializeResolves(c)
  \/ \E c \in Calls, e \in NativeErrors : InitializeRejects(c, e)
  \/ \E c \in Calls, tok \in Tokens : RegisterNativeResolves(c, tok)
  \/ \E c \in Calls, e \in NativeErrors : RegisterNativeRejects(c, e)
  \/ \E c \in Calls, e \in NativeErrors : PluginError(c, e)
  \/ \E c \in Calls : RunUnregister(c)
  \/ \E c \in Calls : UnregisterResolves(c)
  \/ \E c \in Calls, e \in NativeErrors : UnregisterRejects(c, e)

SpecOriginal == InitOriginal /\ [][NextOriginal]_vars

\* The settings register(o) gives to native initialize:
\* `_.merge({}, DEFAULT_SETTINGS, options)`.  Merging into the shared object
\* itself would leave the result in it.
MergeSettings(o) ==
  /\ service = "operations"
  /\ LET target == IF mergeTarget = "fresh" THEN EmptyObject ELSE defaults
         merged == merge(merge(target, defaults), o)
     IN /\ options' = o
        /\ settings' = merged
        /\ defaults' = IF mergeTarget = "fresh" THEN defaults ELSE merged
  /\ UNCHANGED <<badge, relay, variant, platform, ready, plugin, token,
                 listeners, calls, used, cordova, globals, service, logged>>

InitSettings == InitWith({"part_002"}, {None}) /\ platform = "android"

NextSettings == \E o \in Options : MergeSettings(o)

\* The settings merge of register(), over the options a caller can give.
SpecSettings == InitSettings /\ [][NextSettings]_vars

\* register() and unregister() of part_002 called without waiting for one
\* another.  A call made while others are in flight overlaps them.  Neither
\* operation looks at the platform.
InitOverlap == InitWith({"part_002"}, {None}) /\ platform = "android"

InvokeOverlapping(c, op) ==
  /\ used < MaxCalls
  /\ c = used + 1
  /\ op \in RegistrationOps
  /\ calls' = [d \in Calls |->
       IF d = c THEN [calls[c] EXCEPT !.op = op, !.pc = "queued", !.overlapped = ~NoFlight]
       ELSE IF InFlight(d) THEN [calls[d] EXCEPT !.overlapped = TRUE]
       ELSE calls[d]]
  /\ used' = c
  /\ UNCHANGED <<badge, relay, setup, variant, platform, ready, plugin, token, listeners>>

\* Steps of register and unregister calls.
RegistrationSteps ==
  \/ \E c \in Calls : RunRegister(c)
  \/ \E c \in Calls : RegisterUnregisterResolves(c)
  \/ \E c \in Calls, e \in NativeErrors : RegisterUnregisterRejects(c, e)
  \/ \E c \in Calls : InitializeResolves(c)
  \/ \E c \in Calls, e \in NativeErrors : InitializeRejects(c, e)
  \/ \E c \in Calls, tok \in Tokens : RegisterNativeResolves(c, tok)
  \/ \E c \in Calls, e \in NativeErrors : RegisterNativeRejects(c, e)
  \/ \E c \in Calls, e \in NativeErrors : PluginError(c, e)
  \/ \E c \in Calls : RollbackResolves(c)
  \/ \E c \in Calls, e \in NativeErrors : RollbackRejects(c, e)
  \/ \E c \in Calls : RunUnregister(c)
  \/ \E c \in Calls : UnregisterResolves(c)
  \/ \E c \in Calls, e \in NativeErrors : UnregisterRejects(c, e)

\* The bodies deferred by whenReady run in the order of the calls.
InOrder(c) == \A d \in Calls : d < c => calls[d].pc # "queued"

RunRegisterInOrder(c) == InOrder(c) /\ RunRegister(c)

RunUnregisterInOrder(c) == InOrder(c) /\ RunUnregister(c)

\* Native errors are opaque to the service: one stands for all of them where
\* calls overlap.
OverlapErrors == {CHOOSE e \in NativeErrors : TRUE}

NextOverlap ==
  \/ Ready
  \/ \E c \in Calls, op \in Ops : InvokeOverlapping(c, op)
  \/ \E c \in Calls : RunRegisterInOrder(c)
  \/ \E c \in Calls : RegisterUnregisterResolves(c)
  \/ \E c \in Calls, e \in OverlapErrors : RegisterUnregisterRejects(c, e)
  \/ \E c \in Calls : InitializeResolves(c)
  \/ \E c \in Calls, e \in OverlapErrors : InitializeRejects(c, e)
  \/ \E c \in Calls, tok \in Tokens : RegisterNativeResolves(c, tok)
  \/ \E c \in Calls, e \in OverlapErrors : RegisterNativeRejects(c, e)
  \/ \E c \in Calls, e \in OverlapErrors : PluginError(c, e)
  \/ \E c \in Calls : RollbackResolves(c)
  \/ \E c \in Calls, e \in OverlapErrors : RollbackRejects(c, e)
  \/ \E c \in Calls : RunUnregisterInOrder(c)
  \/ \E c \in Calls : UnregisterResolves(c)
  \/ \E c \in Calls, e \in OverlapErrors : UnregisterRejects(c, e)

SpecOverlap == InitOverlap /\ [][NextOverlap]_vars

\* A native call issued by call c resolves or rejects.
NativeCompletes(c) ==
  \/ RegisterUnregisterResolves(c)
  \/ \E e \in NativeErrors : RegisterUnregisterRejects(c, e)
  \/ InitializeResolves(c)
  \/ \E e \in NativeErrors : InitializeRejects(c, e)
  \/ \E tok \in Tokens : RegisterNativeResolves(c, tok)
  \/ \E e \in NativeErrors : RegisterNativeRejects(c, e)
  \/ RollbackResolves(c)
  \/ \E e \in NativeErrors : RollbackRejects(c, e)
  \/ UnregisterResolves(c)
  \/ \E e \in NativeErrors : UnregisterRejects(c, e)

\* The body deferred by whenReady runs.
BodyRuns(c) == RunRegister(c) \/ RunUnregister(c)

NextLive ==
  \/ Ready
  \/ \E c \in Calls, op \in Ops : InvokeRegistration(c, op)
  \/ RegistrationSteps

\* register() and unregister() of part_002, one call after the other, in a
\* host whose readiness signal fires, whose deferred bodies run and whose
\* native calls all complete.  The plugin may or may not emit 'error'.
Fairness ==
  /\ WF_vars(Ready)
  /\ \A c \in Calls : WF_vars(BodyRuns(c))
  /\ \A c \in Calls : WF_vars(NativeCompletes(c))

SpecLive == InitOverlap /\ [][NextLive]_vars /\ Fairness

\* Globals check of the constructor of part_002:
\* `cordovaUtils.isCordova() && !PushNotification`.
missingGlobals(isCordova, pushNotification) == isCordova /\ ~pushNotification

\* The constructor of part_002: on missing globals it logs and returns before
\* any operation is defined on the service.
Construct ==
  /\ service = "unconstructed"
  /\ IF missingGlobals(cordova, globals)
       THEN logged' = MISSING_GLOBALS /\ service' = "empty"
       ELSE logged' = logged /\ service' = "operations"
  /\ UNCHANGED <<badge, relay, variant, platform, ready, plugin, token,
                 listeners, calls, used, cordova, globals, defaults, options,
                 settings>>

\* The application calls an operation of a service that has none:
\* `service.<op>` is undefined and the call throws.
InvokeMissing(c, op) ==
  /\ used < MaxCalls
  /\ c = used + 1
  /\ service = "empty"
  /\ calls' = [calls EXCEPT ![c].op = op, ![c].pc = "thrown", ![c].reason = TYPE_ERROR]
  /\ used' = c
  /\ UNCHANGED <<badge, relay, setup, variant, platform, ready, plugin, token, listeners>>

\* register() / unregister() called in a host that has the plugin.  What
\* $cordovaPushV5 does without it is not part of the service.
InvokeWithPlugin(c, op) == globals /\ InvokeRegistration(c, op)

InvokeCheckPermission(c) == NoFlight /\ InvokeExtra(c, "checkPermission", << >>)

RunWithPlugin(c) == globals /\ RunSimple(c)

\* Body of checkPermission without the plugin: `PushNotification.hasPermission`
\* throws inside the $q resolver, which rejects the promise.
RunWithoutPlugin(c) ==
  /\ ready /\ ~globals
  /\ calls[c].pc = "queued" /\ calls[c].op = "checkPermission"
  /\ calls' = [calls EXCEPT ![c] =
       [Started(c) EXCEPT !.pc = "rejected", !.reason = TYPE_ERROR]]
  /\ UNCHANGED <<badge, relay, setup, variant, platform, ready, plugin, token, listeners, used>>

\* part_002 about to be constructed, in a host that is or is not Cordova and
\* has or has not the plugin.
InitConstruct ==
  /\ Fresh({"part_002"}, {None})
  /\ platform = "android"
  /\ cordova \in BOOLEAN
  /\ globals \in BOOLEAN
  /\ service = "unconstructed"
  /\ logged = NoError

NextConstruct ==
  \/ Construct
  \/ Ready
  \/ \E c \in Calls, op \in RegistrationOps : InvokeWithPlugin(c, op)
  \/ \E c \in Calls : InvokeCheckPermission(c)
  \/ \E c \in Calls, op \in RegistrationOps \cup {"checkPermission"} : InvokeMissing(c, op)
  \/ RegistrationSteps
  \/ \E c \in Calls : RunWithPlugin(c)
  \/ \E c \in Calls : RunWithoutPlugin(c)
  \/ \E c \in Calls, v \in {"true", "false"} : SimpleResolves(c, v)
  \/ \E c \in Calls, e \in NativeErrors : SimpleRejects(c, e)

\* Construction of part_002 and the calls made after it.
SpecConstruct == InitConstruct /\ [][NextConstruct]_vars

\* A later session: the cache may still hold the token of an earlier one.
InitStale == InitWith(Variants, Tokens \cup {None})

SpecStale == InitStale /\ [][Next]_vars

\* Every operation of part_002: the application first makes its register /
\* unregister calls and then its other calls.  Every sequence of calls made
\* before the host is ready is a behaviour; the host is followed past its
\* readiness signal from the states where at most one call is waiting.
InitAll == InitWith({"part_002"}, {None})

\* Calls made so far of operations other than register / unregister.
others == {c \in Calls : calls[c].op \notin RegistrationOps \cup {"none"}}

MoreOthers == Cardinality(others) < MaxOthers

\* Once the host is ready the application awaits each call before it makes
\* the next one; before that no call can settle and it does not wait.
Awaited == ~ready \/ NoFlight

InvokeOtherAwaited(c, op) ==
  c = used + 1 /\ op \notin RegistrationOps /\ MoreOthers /\ Awaited /\ Invoke(c, op)

InvokeRegistrationAwaited(c, op) ==
  c = used + 1 /\ op \in RegistrationOps /\ others = {} /\ Awaited /\ Invoke(c, op)

InvokeExtraAwaited(c, op, args) ==
  c = used + 1 /\ args \in ArgsOf(op) /\ MoreOthers /\ Awaited /\ InvokeExtra(c, op, args)

QueryAwaited(c, op) == c = used + 1 /\ MoreOthers /\ Awaited /\ Query(c, op)

ListenAwaited(c, op, h) ==
  c = used + 1 /\ handlers[h] = "unused" /\ MoreOthers /\ Awaited /\ Listen(c, op, h)

Waiting == {c \in Calls : InFlight(c)}

ReadyAll == Cardinality(Waiting) <= 1 /\ Ready

NextAll ==
  \/ ReadyAll
  \/ \E c \in Calls, op \in Ops : InvokeRegistrationAwaited(c, op)
  \/ \E c \in Calls, op \in Ops : InvokeOtherAwaited(c, op)
  \/ \E c \in Calls : RunRegister(c)
  \/ \E c \in Calls : RegisterUnregisterResolves(c)
  \/ \E c \in Calls, e \in NativeErrors : RegisterUnregisterRejects(c, e)
  \/ \E c \in Calls : InitializeResolves(c)
  \/ \E c \in Calls, e \in NativeErrors : InitializeRejects(c, e)
  \/ \E c \in Calls, tok \in Tokens : RegisterNativeResolves(c, tok)
  \/ \E c \in Calls, e \in NativeErrors : RegisterNativeRejects(c, e)
  \/ \E c \in Calls, e \in NativeErrors : PluginError(c, e)
  \/ \E c \in Calls : RollbackResolves(c)
  \/ \E c \in Calls, e \in NativeErrors : RollbackRejects(c, e)
  \/ \E c \in Calls : RunUnregister(c)
  \/ \E c \in Calls : UnregisterResolves(c)
  \/ \E c \in Calls, e \in NativeErrors : UnregisterRejects(c, e)
  \/ \E c \in Calls : RunOperation(c)
  \/ \E c \in Calls : OperationResolves(c)
  \/ \E c \in Calls, e \in NativeErrors : OperationRejects(c, e)
  \/ \E c \in Calls, op \in ExtraOps, args \in ArgLists : InvokeExtraAwaited(c, op, args)
  \/ ExtraSteps
  \/ \E c \in Calls, op \in QueryOps : QueryAwaited(c, op)
  \/ \E c \in Calls, op \in RelayOps, h \in Handlers : ListenAwaited(c, op, h)

SpecAll == InitAll /\ [][NextAll]_vars

TypeOK ==
  /\ variant \in Variants \cup CheckPlatformVariants \cup {ORIGINAL}
  /\ platform \in Platforms
  /\ ready \in BOOLEAN
  /\ plugin \in {NoPlugin} \cup Calls
  /\ token \in {None} \cup Tokens
  /\ listeners \subseteq Calls
  /\ used \in 0..MaxCalls
  /\ \A c \in Calls : calls[c].op \in Ops \cup RelayOps \cup ExtraOps \cup QueryOps \cup {"none"}
  /\ \A h \in Handlers : handlers[h] \in EventNames \cup {"unused", "deregistered"}
  /\ emitted \in 0..MaxEvents
  /\ cordova \in BOOLEAN
  /\ globals \in BOOLEAN
  /\ service \in {"unconstructed", "operations", "empty"}
  /\ logged \in {NoError, MISSING_GLOBALS}
  /\ defaults = DEFAULT_SETTINGS
  /\ DOMAIN settings \subseteq Sections
  /\ \A x \in DOMAIN settings : settings[x].kind \in {"value", "object"}

(* ============================ properties ================================ *)

\* The service is in the Unregistered state.
Unregistered == plugin = NoPlugin /\ ~isRegistered(plugin, token)

\* Call c is the last call made and it has settled.
LastSettled(c) == c = used /\ calls[c].pc \in Settled

\* C1: in part_002, right after a register() call has rejected (whatever
\* step failed) the service is Unregistered: the plugin handle is empty,
\* isRegistered() is false and no token is cached.
C1_RejectedRegisterLeavesUnregistered ==
  \A c \in Calls :
    ( /\ variant = "part_002"
      /\ calls[c].op = "register"
      /\ LastSettled(c)
      /\ calls[c].pc = "rejected" )
    => (Unregistered /\ token = None)

\* C2: in part_000, when native initialize succeeded and native register (or
\* a plugin 'error' event) then failed while no token is cached, the plugin
\* handle is empty once register() has rejected.
C2_RollbackEmptiesHandle ==
  \A c \in Calls :
    ( /\ variant = "part_000"
      /\ calls[c].op = "register"
      /\ LastSettled(c)
      /\ calls[c].pc = "rejected"
      /\ calls[c].failStep \in {"register", "event"}
      /\ token = None )
    => plugin = NoPlugin

\* C3: in part_002, a register() call that failed in native initialize, in
\* native register or on a plugin 'error' event rejects with exactly the
\* error of that step, whatever the rollback's native unregister did.
C3_RejectsWithOriginalError ==
  \A c \in Calls :
    ( /\ variant = "part_002"
      /\ calls[c].op = "register"
      /\ calls[c].pc = "rejected"
      /\ calls[c].failStep \in {"initialize", "register", "event"} )
    => calls[c].reason = calls[c].error

C5_PreviousIsCachedToken ==
  \A c \in Calls :
    ( /\ variant = "part_002"
      /\ calls[c].op = "register"
      /\ calls[c].pc = "resolved"
      /\ calls[c].startReg
      /\ calls[c].startToken # None )
    => ( /\ calls[c].previous = calls[c].startToken
         /\ calls[c].log = <<"unregister", "initialize", "register">> )

\* Witness of C5: a second register() resolved after starting Registered
\* with a cached token.
C5_Witness ==
  \E c \in Calls :
    /\ variant = "part_002"
    /\ calls[c].op = "register"
    /\ calls[c].pc = "resolved"
    /\ calls[c].startReg
    /\ calls[c].startToken \in Tokens
    /\ calls[c].previous = calls[c].startToken
    /\ calls[c].current # calls[c].previous

\* C6: in part_000, a resolved register() reports hasChanged true iff the new
\* token differs from the token cached before the call; when the call before
\* it was a register() that resolved with the same token, it reports
\* previous equal to that token and hasChanged false.
C6_HasChangedIffTokenDiffers ==
  \A c \in Calls :
    ( /\ variant = "part_000"
      /\ calls[c].op = "register"
      /\ calls[c].pc = "resolved" )
    => ( /\ calls[c].hasChanged <=> (calls[c].current # calls[c].startToken)
         /\ ( /\ c > 1
              /\ calls[c - 1].op = "register"
              /\ calls[c - 1].pc = "resolved"
              /\ calls[c - 1].current = calls[c].current )
            => ( /\ calls[c].previous = calls[c].current
                 /\ ~calls[c].hasChanged ) )

\* C7: in part_002, subscribe / unsubscribe whose body runs while
\* isRegistered() is false reject with NOT_INITIALIZED, issue no native call
\* and leave the plugin handle and the cached token unchanged.
C7_TopicOpsNeedRegistration ==
  [][ \A c \in Calls :
        ( /\ variant = "part_002"
          /\ calls[c].op \in TopicOps
          /\ calls[c].pc = "queued"
          /\ calls'[c].pc # "queued"
          /\ ~isRegistered(plugin, token) )
        => ( /\ calls'[c].pc = "rejected"
             /\ calls'[c].reason = NOT_INITIALIZED
             /\ calls'[c].log = << >>
             /\ ~calls'[c].pending
             /\ plugin' = plugin
             /\ token' = token ) ]_vars

\* Witness of C7: a subscribe / unsubscribe ran while Unregistered.
C7_Witness ==
  \E c \in Calls :
    /\ variant = "part_002"
    /\ calls[c].op \in TopicOps
    /\ calls[c].pc = "rejected"
    /\ ~calls[c].startReg
    /\ calls[c].reason = NOT_INITIALIZED

\* C8: in part_002, notificationHandled, clearNotifications and
\* clearNotification whose body runs while Unregistered reject with
\* NOT_INITIALIZED and issue no native call, on every platform.
C8_NotificationOpsNeedRegistration ==
  \A c \in Calls :
    ( /\ variant = "part_002"
      /\ calls[c].op \in NotificationOps
      /\ calls[c].pc \notin {"idle", "queued"}
      /\ ~calls[c].startReg )
    => ( /\ calls[c].pc = "rejected"
         /\ calls[c].reason = NOT_INITIALIZED
         /\ calls[c].log = << >> )

\* C9: in part_002, once a register() call has settled and the native
\* register it issued has completed, the transient 'error' listener of that
\* call is no longer attached to the instance it was attached to.
C9_ErrorListenerDetached ==
  \A c \in Calls :
    ( /\ variant = "part_002"
      /\ calls[c].op = "register"
      /\ calls[c].pc \in Settled
      /\ ~calls[c].pending )
    => c \notin listeners

\* C10: in part_002, in every state in which no register() or unregister()
\* call is in flight, a token is cached iff a live plugin handle exists.
C10_TokenIffHandle ==
  (variant = "part_002" /\ NoFlight)
    => (token # None <=> plugin # NoPlugin)

\* C20: in part_002, an emitted event is delivered exactly once to each
\* handler registered for its name through onNotification / onError, with
\* the payload as first argument and the event as second, and to no other
\* handler; calling the deregistration function of one handler leaves every
\* other handler registered, and a deregistered handler is not called again.
C20_RelayFanOut ==
  [][ variant = "part_002" =>
        /\ emitted' # emitted =>
             \E name \in EventNames, payload \in Payloads :
               \A h \in Handlers :
                 inbox'[h] = IF handlers[h] = name
                               THEN Append(inbox[h], <<payload, name>>)
                               ELSE inbox[h]
        /\ \A h \in Handlers :
             (handlers[h] \in EventNames /\ handlers'[h] = "deregistered")
               => /\ \A g \in Handlers \ {h} : handlers'[g] = handlers[g]
                  /\ inbox' = inbox
        /\ \A h \in Handlers :
             handlers[h] = "deregistered"
               => (handlers'[h] = "deregistered" /\ inbox'[h] = inbox[h]) ]_vars

\* Witness of C20: two handlers of the same event got a first event, one was
\* deregistered, and a second event reached only the other.
C20_Witness ==
  \E h, g \in Handlers :
    /\ variant = "part_002"
    /\ handlers[h] = "deregistered"
    /\ handlers[g] \in EventNames
    /\ Len(inbox[h]) = 1
    /\ Len(inbox[g]) = 2
    /\ inbox[g][1] = inbox[h][1]
    /\ inbox[g][2][2] = handlers[g]

BadgePlatforms == {"ios", "android"}

\* C11 (part_001, same code in part_000): on ios and on android
\* setBadgeNumber(n) issues the native setBadgeNumber with n and, when it
\* has resolved, it has resolved with n; it resolves with -1 only on a
\* platform that is neither.
C11_SetBadgeNumberResolvesWithNumber ==
  variant \in CheckPlatformVariants =>
    \A c \in Calls :
      calls[c].op = "setBadgeNumber" /\ calls[c].pc = "resolved" =>
        IF platform \in BadgePlatforms
          THEN /\ calls[c].log = <<"setBadgeNumber">>
               /\ calls[c].sent = <<numberOf("setBadgeNumber", calls[c].arg)>>
               /\ calls[c].num = calls[c].sent
          ELSE calls[c].num = <<UNSUPPORTED>>

\* C12 (part_002), on a platform with a badge: the step that completes
\* setBadgeNumber() leaves the badge at 0 and resolves with 0; the step that
\* completes incrementBadgeNumber(), when the badge still is what it read,
\* leaves the badge one higher and resolves with that value.
C12_DefaultNumbers ==
  [][variant = "part_002" /\ platform \in BadgePlatforms =>
      \A c \in Calls :
        calls[c].arg = << >> /\ calls[c].pc \in {"native", "set"}
          /\ calls'[c].pc = "resolved" =>
            /\ calls[c].op = "setBadgeNumber" =>
                 badge' = 0 /\ calls'[c].num = <<0>>
            /\ calls[c].op = "incrementBadgeNumber" /\ calls[c].read = <<badge>> =>
                 badge' = badge + 1 /\ calls'[c].num = <<badge + 1>>]_vars

\* setBadgeNumber() resolved with 0, then incrementBadgeNumber() read 0 and
\* resolved with 1.
C12_Witness ==
  /\ variant = "part_002" /\ platform \in BadgePlatforms
  /\ \E c, d \in Calls :
       /\ calls[c].op = "setBadgeNumber" /\ calls[c].arg = << >>
       /\ calls[c].pc = "resolved" /\ calls[c].num = <<0>>
       /\ calls[d].op = "incrementBadgeNumber" /\ calls[d].arg = << >>
       /\ calls[d].pc = "resolved" /\ calls[d].read = <<0>>
       /\ calls[d].num = <<1>> /\ badge = 1

\* C13 (part_001), on a platform that is neither ios nor android:
\* getBadgeNumber, setBadgeNumber and incrementBadgeNumber only ever resolve,
\* with -1, checkPermission only ever resolves, with null, and none of them
\* issues a native call.
C13_UnsupportedPlatformFallback ==
  variant = "part_001" /\ platform \notin BadgePlatforms =>
    \A c \in Calls :
      calls[c].op \in BadgeOps \cup {"checkPermission"} =>
        /\ calls[c].log = << >> /\ ~calls[c].pending
        /\ calls[c].pc \in {"queued", "getQueued", "resolved"}
        /\ calls[c].pc = "resolved" =>
             IF calls[c].op \in BadgeOps
               THEN calls[c].num = <<UNSUPPORTED>>
               ELSE calls[c].value = "null"

C13_Witness ==
  /\ variant = "part_001" /\ platform \notin BadgePlatforms
  /\ \E c, d \in Calls :
       /\ calls[c].op = "incrementBadgeNumber" /\ calls[c].pc = "resolved"
       /\ calls[d].op = "checkPermission" /\ calls[d].pc = "resolved"

\* C14 (part_002): the step that completes the native set of
\* incrementBadgeNumber(n) leaves the badge at the value read plus n,
\* whatever the badge has become since the read.
C14_IncrementIsGetThenSet ==
  [][variant = "part_002" =>
      \A c \in Calls :
        calls[c].op = "incrementBadgeNumber" /\ calls[c].pc = "set"
          /\ calls'[c].pc = "resolved" =>
            /\ badge' = calls[c].read[1] + numberOf(calls[c].op, calls[c].arg)
            /\ calls'[c].num = <<badge'>>]_vars

\* Two overlapping increments that read the same value: the badge ends
\* increased by only one of them.
C14_Witness ==
  /\ variant = "part_002"
  /\ \E c, d \in Calls :
       /\ c # d
       /\ calls[c].op = "incrementBadgeNumber" /\ calls[c].pc = "resolved"
       /\ calls[d].op = "incrementBadgeNumber" /\ calls[d].pc = "resolved"
       /\ calls[c].read = calls[d].read
       /\ numberOf(calls[c].op, calls[c].arg) > 0
       /\ numberOf(calls[d].op, calls[d].arg) > 0
       /\ badge = calls[d].num[1]
       /\ badge < calls[c].read[1] + numberOf(calls[c].op, calls[c].arg)
                                   + numberOf(calls[d].op, calls[d].arg)

\* Number of times the native call `name` was issued by a call with log `log`.
issued(log, name) == Cardinality({i \in DOMAIN log : log[i] = name})

\* C18 (part_002): within one register() or unregister(), the native call
\* whose failure entered the catch is issued once only.
C18_FailedCallNotReissued ==
  variant = "part_002" =>
    \A c \in Calls :
      calls[c].op \in RegistrationOps
        /\ calls[c].failStep \in {"unregister", "initialize", "register"} =>
          issued(calls[c].log, calls[c].failStep) <= 1

\* C15 (part_002): as long as the host readiness signal has not fired, no
\* call, whatever calls were made, has issued a call to the native plugin or
\* to the $cordovaPushV5 adapter; incrementBadgeNumber included.
C15_NoNativeCallBeforeReady ==
  variant = "part_002" /\ ~ready =>
    \A c \in Calls : calls[c].log = << >> /\ ~calls[c].pending

\* Before readiness: a register() is waiting and an incrementBadgeNumber()
\* has run its own body and waits in its getBadgeNumber.
C15_Witness ==
  /\ variant = "part_002" /\ ~ready
  /\ \E c, d \in Calls :
       /\ calls[c].op = "register" /\ calls[c].pc = "queued"
       /\ calls[d].op = "incrementBadgeNumber" /\ calls[d].pc = "getQueued"

\* The step in which an unregister() call finds no plugin handle (part_002).
UnregisterIdleStep(c) ==
  /\ variant = "part_002"
  /\ calls[c].op = "unregister" /\ calls[c].pc = "queued"
  /\ calls'[c].pc # "queued"
  /\ plugin = NoPlugin

C17_FailedInitializeLeavesNoToken ==
  variant = "part_000" =>
    \A c \in Calls :
      LastSettled(c) /\ calls[c].op = "register" /\ calls[c].pc = "rejected"
        /\ calls[c].failStep = "initialize" =>
          token = None /\ ~isRegistered(plugin, token)

\* C19 (part_002): a step of a call of any operation other than register
\* and unregister leaves the plugin handle and the cached token unchanged.
C19_OnlyRegistrationWritesHandleAndToken ==
  [][variant = "part_002" =>
      \A c \in Calls :
        calls'[c] # calls[c] /\ calls'[c].op \notin RegistrationOps =>
          plugin' = plugin /\ token' = token]_vars

\* While registered, with a token cached, another operation has issued its
\* native call and resolved.
C19_Witness ==
  /\ variant = "part_002" /\ plugin # NoPlugin /\ token \in Tokens
  /\ \E c \in Calls :
       /\ calls[c].op \notin RegistrationOps \cup {"none"}
       /\ calls[c].pc = "resolved" /\ calls[c].log # << >>

\* C24 (part_002): while the native unregister of an unregister() call is
\* outstanding the handle and the token only change in the step in which
\* the call resolves; when the native call fails the call rejects with
\* the native error and leaves the handle live and the token cached.
C24_FailedUnregisterLeavesRegistered ==
  [][variant = "part_002" =>
      \A c \in Calls :
        calls[c].op = "unregister" /\ calls[c].pc = "unreg" =>
          /\ calls'[c].pc = "rejected" =>
               /\ calls'[c].reason \in NativeErrors
               /\ plugin' = plugin /\ token' = token
               /\ isRegistered(plugin', token')
          /\ plugin' # plugin \/ token' # token => calls'[c].pc = "resolved"]_vars

C24_Witness ==
  /\ variant = "part_002" /\ plugin # NoPlugin /\ token \in Tokens
  /\ \E c \in Calls :
       /\ LastSettled(c) /\ calls[c].op = "unregister"
       /\ calls[c].pc = "rejected" /\ calls[c].log = <<"unregister">>

\* Operations of part_001 that test the platform with
\* checkPlatforms(['ios', 'android'], ...) before their native call.
CheckPlatformsOps == {"setBadgeNumber", "checkPermission", "clearNotifications"}

\* C27 (part_001), on ios and android: the promise of setBadgeNumber,
\* checkPermission and clearNotifications is not settled while the native
\* call it issued is outstanding, and a call that rejected after issuing
\* its native call rejected with the native error.
C27_SettlesWithNativeCall ==
  variant = "part_001" /\ platform \in BadgePlatforms =>
    \A c \in Calls :
      calls[c].op \in CheckPlatformsOps =>
        /\ calls[c].pending => calls[c].pc \notin Settled
        /\ calls[c].pc = "rejected" /\ calls[c].log # << >> =>
             calls[c].reason \in NativeErrors

\* C28 (part_001), on every platform: the number incrementBadgeNumber(n)
\* passes to the native setBadgeNumber is a count passed by a native
\* getBadgeNumber, plus n; the sentinel -1 is never part of it.
C28_IncrementSendsNativeCountPlusNumber ==
  variant = "part_001" =>
    \A c \in Calls :
      calls[c].op = "incrementBadgeNumber" /\ calls[c].sent # << >> =>
        /\ calls[c].log = <<"getBadgeNumber", "setBadgeNumber">>
        /\ calls[c].read # <<UNSUPPORTED>>
        /\ calls[c].sent = <<calls[c].read[1] + numberOf(calls[c].op, calls[c].arg)>>

\* C29 (part_001, same code in part_000): checkPermission() resolves with
\* the isEnabled boolean of the native hasPermission on ios and android,
\* with null only on a platform that is neither.
C29_CheckPermissionResolvesWithIsEnabled ==
  variant \in CheckPlatformVariants =>
    \A c \in Calls :
      calls[c].op = "checkPermission" /\ calls[c].pc = "resolved" =>
        IF platform \in BadgePlatforms
          THEN calls[c].log = <<"hasPermission">> /\ calls[c].value \in {"true", "false"}
          ELSE calls[c].value = "null"

\* C26 (push.service.js): a register() call whose native initialize
\* succeeded and whose native register then failed has rejected with the
\* native error, whether or not the plugin emits 'error'.
C26_FailedNativeRegisterRejects ==
  variant = ORIGINAL =>
    \A c \in Calls :
      calls[c].op = "register" /\ calls[c].failStep = "register" =>
        calls[c].pc = "rejected" /\ calls[c].reason = calls[c].error

\* The step in which register() call c resolves.
RegisterResolvesStep(c) ==
  /\ variant = "part_002"
  /\ calls[c].op = "register" /\ calls[c].pc = "reg" /\ calls'[c].pc = "resolved"

\* C23 as stated (part_002): at the moment a register() call resolves the
\* handle is live, isRegistered() is true and getDeviceToken() is the
\* reported current token, whatever calls overlap it.
C23_ResolvedRegisterIsRegistered ==
  [][\A c \in Calls : RegisterResolvesStep(c) =>
       /\ plugin' # NoPlugin /\ isRegistered(plugin', token')
       /\ token' = calls'[c].current]_vars

\* C23 as the code has it (part_002): at the moment a register() call
\* resolves getDeviceToken() is the reported current token; the handle is
\* live (the instance this call created) and isRegistered() is true when no
\* other register() or unregister() call overlapped it.
C23_ResolvedRegisterAloneIsRegistered ==
  [][\A c \in Calls : RegisterResolvesStep(c) =>
       /\ token' = calls'[c].current /\ token' \in Tokens
       /\ ~calls'[c].overlapped => plugin' = c /\ isRegistered(plugin', token')]_vars

\* A register() made after an earlier call had settled, overlapped by no
\* call, has resolved.
C23_Witness ==
  /\ variant = "part_002"
  /\ \E c \in Calls :
       /\ LastSettled(c) /\ calls[c].op = "register" /\ calls[c].pc = "resolved"
       /\ ~calls[c].overlapped /\ c > 1
       /\ plugin = c /\ token = calls[c].current

\* Call c issues the native call `name` in this step.
Issues(c, name) == issued(calls'[c].log, name) > issued(calls[c].log, name)

\* C25 (part_002): within one register() call, initialize is issued either
\* first, when the service is not registered, or in the step in which the
\* native unregister resolves; the handle is set and the native register
\* issued in the step in which initialize resolves; a token is written to the
\* cache only in the step in which a native register resolves with it while
\* its register() is still waiting for it.
C25_RegisterStepsInSequence ==
  [][variant = "part_002" =>
      /\ \A c \in Calls :
           calls'[c].op = "register" /\ calls'[c] # calls[c] =>
             /\ Issues(c, "initialize") =>
                  \/ calls[c].pc = "queued" /\ calls[c].log = << >>
                       /\ ~isRegistered(plugin, token)
                  \/ calls[c].pc = "unreg" /\ calls[c].log = <<"unregister">>
             /\ Issues(c, "register") =>
                  calls[c].pc = "init" /\ plugin' = c
             /\ plugin' = c /\ plugin # c => Issues(c, "register")
      /\ token' # token /\ token' \in Tokens =>
           \E c \in Calls :
             /\ RegisterResolvesStep(c) /\ calls[c].pending
             /\ calls[c].log = calls'[c].log
             /\ token' = calls'[c].current]_vars

\* A register() made while registered ran its three native calls and
\* resolved with the token now cached.
C25_Witness ==
  /\ variant = "part_002"
  /\ \E c \in Calls :
       /\ calls[c].op = "register" /\ calls[c].pc = "resolved"
       /\ calls[c].log = <<"unregister", "initialize", "register">>
       /\ token = calls[c].current /\ plugin = c

\* C30 (part_002): when the readiness signal fires and every native call
\* issued completes, every register() and unregister() call made resolves
\* or rejects, also when the plugin emits 'error' during the registration.
C30_RegistrationCallsSettle ==
  \A c \in Calls :
    (variant = "part_002" /\ calls[c].op \in RegistrationOps /\ calls[c].pc = "queued")
      ~> (calls[c].pc \in Settled)

\* A register() rejected by the 'error' event after its rollback, and the
\* native register it left outstanding has completed too.
C30_Witness ==
  /\ variant = "part_002"
  /\ \E c \in Calls :
       /\ calls[c].op = "register" /\ calls[c].pc = "rejected"
       /\ calls[c].failStep = "event" /\ ~calls[c].pending
       /\ calls[c].log = <<"initialize", "register", "unregister">>

\* Settings r are the defaults d overridden by the options o: a top-level key
\* or a key of a nested object that o has carries o's value, with the values
\* in skip excepted, which leave what d has; a key o lacks carries d's value.
overridden(d, o, r, skip) ==
  /\ DOMAIN r = DOMAIN d \cup DOMAIN o
  /\ \A x \in DOMAIN r :
       IF x \notin DOMAIN o THEN r[x] = d[x]
       ELSE IF o[x].kind = "value"
         THEN r[x] = IF o[x].val \in skip /\ x \in DOMAIN d THEN d[x] ELSE o[x]
       ELSE LET df == IF x \in DOMAIN d /\ d[x].kind = "object"
                        THEN d[x].fields ELSE EmptyObject
                of == o[x].fields
            IN /\ r[x].kind = "object"
               /\ DOMAIN r[x].fields = DOMAIN df \cup DOMAIN of
               /\ \A k \in DOMAIN r[x].fields :
                    r[x].fields[k] =
                      IF k \notin DOMAIN of \/ (of[k] \in skip /\ k \in DOMAIN df)
                      THEN df[k] ELSE of[k]

\* register() has computed the settings of a native initialize.
Merged == variant = "part_002" /\ DOMAIN settings # {}

\* C21 as stated: in part_002 the settings given to native initialize are
\* the defaults overridden by the caller's options, the caller's value
\* winning for every key present in both and the other keys keeping their
\* default, and the shared defaults are unchanged.
C21_CallerValueWins ==
  Merged => /\ overridden(DEFAULT_SETTINGS, options, settings, {})
            /\ defaults = DEFAULT_SETTINGS

\* C21: in part_002 the settings given to native initialize are the
\* defaults overridden by the caller's options: a key the caller gives with
\* a value other than `undefined` carries the caller's value, a key given
\* as `undefined` keeps its default when there is one, a key the caller
\* leaves out keeps its default; the shared defaults are unchanged after
\* any sequence of register() calls.
C21_DefinedCallerValueWins ==
  Merged => /\ overridden(DEFAULT_SETTINGS, options, settings, {"undefined"})
            /\ defaults = DEFAULT_SETTINGS

\* register() was given a value for a default key, `undefined` for another
\* and a key without default.
C21_Witness ==
  /\ Merged
  /\ DOMAIN options = {"ios"}
  /\ options["ios"].kind = "object"
  /\ DOMAIN options["ios"].fields = {"alert", "sound"}
  /\ options["ios"].fields["alert"] = "false"
  /\ options["ios"].fields["sound"] = "undefined"
  /\ settings["ios"].fields["alert"] = "false"
  /\ settings["ios"].fields["sound"] = "true"
  /\ settings["ios"].fields["badge"] = "true"

\* C22: in part_002, when the PushNotification global is absent at
\* construction, MISSING_GLOBALS is logged and the service is left without
\* operations, so that no later call reaches the native layer, whether or
\* not the host reports itself as Cordova.
C22_MissingGlobalHaltsService ==
  (variant = "part_002" /\ ~globals /\ service # "unconstructed")
    => /\ logged = MISSING_GLOBALS
       /\ service = "empty"
       /\ \A c \in Calls : calls[c].pc \in {"idle", "thrown"} /\ calls[c].log = << >>

====
